---------------------------- MODULE Spec2Model ----------------------------
(***************************************************************************)
(* MedVibe clinical-records backend (src/index.js, second server file,     *)
(* lines 130-482): the SQLite tables prontuarios / exames, the CRUD and    *)
(* exam routes, the exam summarizer and the /ai-diagnostico triage route   *)
(* with its two-tier interpretation of the oracle's text.                  *)
(*                                                                         *)
(* Text is a sequence of one-character strings.  JSON.parse is modelled by *)
(* a recursive-descent parser that is exact (RFC 8259) on every text over  *)
(* the characters  { } [ ] " \ , : 1 a x n u l and the blank.              *)
(***************************************************************************)
EXTENDS Integers, Sequences, FiniteSets, TLC

VARIABLES prontuarios, exames, seqP, seqE, resp, ai, issued

vars == <<prontuarios, exames, seqP, seqE, resp, ai, issued>>

-----------------------------------------------------------------------------
(* Bounds of the model *)

\* record ids handed out by AUTOINCREMENT before the model stops creating
MaxId == 2
\* exam rows inserted before the model stops inserting
MaxExams == 2
\* length of the oracle texts enumerated exhaustively
MaxLen == 4
\* length of the exames_solicitados lists supplied by clients
MaxItems == 2

-----------------------------------------------------------------------------
(* Text helpers *)

SP == " "
QUOTE == "\""
BSL == "\\"

SubStr(s, i, j) == IF i > j THEN <<>> ELSE SubSeq(s, i, j)

\* String.prototype.trim over the blank
RECURSIVE TrimLeft(_)
TrimLeft(s) == IF s # <<>> /\ Head(s) = SP THEN TrimLeft(Tail(s)) ELSE s

RECURSIVE TrimRight(_)
TrimRight(s) ==
    IF s # <<>> /\ s[Len(s)] = SP THEN TrimRight(SubStr(s, 1, Len(s) - 1)) ELSE s

Trim(s) == TrimRight(TrimLeft(s))

\* all texts over alphabet A of length exactly n / at most n
RECURSIVE TextsOfLen(_, _)
TextsOfLen(A, n) ==
    IF n = 0 THEN {<<>>}
    ELSE {Append(s, c) : s \in TextsOfLen(A, n - 1), c \in A}

TextsUpTo(A, n) == UNION {TextsOfLen(A, k) : k \in 0..n}

-----------------------------------------------------------------------------
(* JSON.parse *)

Fail == [ok |-> FALSE]

NullText == <<"n", "u", "l", "l">>

RECURSIVE SkipWs(_, _)
SkipWs(s, i) == IF i <= Len(s) /\ s[i] = SP THEN SkipWs(s, i + 1) ELSE i

\* number: one or more digits 1 (no leading-zero or sign cases over the alphabet)
RECURSIVE ParseDigits(_, _, _)
ParseDigits(s, i, acc) ==
    IF i <= Len(s) /\ s[i] = "1" THEN ParseDigits(s, i + 1, acc * 10 + 1)
    ELSE [ok |-> TRUE, val |-> [t |-> "num", n |-> acc], next |-> i]

\* string body after the opening quote; \" and \\ are the escapes the
\* alphabet can spell, any other escaped character is a syntax error
RECURSIVE ParseChars(_, _, _)
ParseChars(s, i, acc) ==
    IF i > Len(s) THEN Fail
    ELSE IF s[i] = QUOTE THEN [ok |-> TRUE, val |-> [t |-> "str", s |-> acc], next |-> i + 1]
    ELSE IF s[i] = BSL THEN
        IF i + 1 <= Len(s) /\ s[i + 1] \in {QUOTE, BSL}
        THEN ParseChars(s, i + 2, Append(acc, s[i + 1]))
        ELSE Fail
    ELSE ParseChars(s, i + 1, Append(acc, s[i]))

RECURSIVE ParseValue(_, _), ParseElems(_, _, _), ParseMembers(_, _, _)

\* i is at the first character of a value (whitespace already skipped)
ParseValue(s, i) ==
    IF i > Len(s) THEN Fail
    ELSE IF s[i] = "1" THEN ParseDigits(s, i, 0)
    ELSE IF s[i] = QUOTE THEN ParseChars(s, i + 1, <<>>)
    ELSE IF s[i] = "[" THEN
        LET j == SkipWs(s, i + 1) IN
        IF j <= Len(s) /\ s[j] = "]"
        THEN [ok |-> TRUE, val |-> [t |-> "arr", items |-> <<>>], next |-> j + 1]
        ELSE ParseElems(s, j, <<>>)
    ELSE IF s[i] = "n" THEN
        IF SubStr(s, i, i + 3) = NullText /\ i + 3 <= Len(s)
        THEN [ok |-> TRUE, val |-> [t |-> "null"], next |-> i + 4]
        ELSE Fail
    ELSE IF s[i] = "{" THEN
        LET j == SkipWs(s, i + 1) IN
        IF j <= Len(s) /\ s[j] = "}"
        THEN [ok |-> TRUE, val |-> [t |-> "obj", m |-> <<>>], next |-> j + 1]
        ELSE ParseMembers(s, j, <<>>)
    ELSE Fail

\* i is at the first character of an array element
ParseElems(s, i, acc) ==
    LET r == ParseValue(s, i) IN
    IF ~r.ok THEN Fail
    ELSE LET j == SkipWs(s, r.next)
             got == Append(acc, r.val) IN
         IF j > Len(s) THEN Fail
         ELSE IF s[j] = "]" THEN [ok |-> TRUE, val |-> [t |-> "arr", items |-> got], next |-> j + 1]
         ELSE IF s[j] = "," THEN ParseElems(s, SkipWs(s, j + 1), got)
         ELSE Fail

\* a later member with the same key replaces the earlier one
PutMember(m, k, v) ==
    IF \E p \in 1..Len(m) : m[p][1] = k
    THEN [p \in 1..Len(m) |-> IF m[p][1] = k THEN <<k, v>> ELSE m[p]]
    ELSE Append(m, <<k, v>>)

\* i is at the first character of an object member (its key)
ParseMembers(s, i, acc) ==
    IF i > Len(s) \/ s[i] # QUOTE THEN Fail
    ELSE LET k == ParseChars(s, i + 1, <<>>) IN
         IF ~k.ok THEN Fail
         ELSE LET c == SkipWs(s, k.next) IN
              IF c > Len(s) \/ s[c] # ":" THEN Fail
              ELSE LET r == ParseValue(s, SkipWs(s, c + 1)) IN
                   IF ~r.ok THEN Fail
                   ELSE LET j == SkipWs(s, r.next)
                            got == PutMember(acc, k.val.s, r.val) IN
                        IF j > Len(s) THEN Fail
                        ELSE IF s[j] = "}" THEN [ok |-> TRUE, val |-> [t |-> "obj", m |-> got], next |-> j + 1]
                        ELSE IF s[j] = "," THEN ParseMembers(s, SkipWs(s, j + 1), got)
                        ELSE Fail

\* JSON.parse(text): [ok |-> TRUE, val |-> value], or Fail for a SyntaxError
JSONparse(s) ==
    LET r == ParseValue(s, SkipWs(s, 1)) IN
    IF r.ok /\ SkipWs(s, r.next) = Len(s) + 1
    THEN [ok |-> TRUE, val |-> r.val]
    ELSE Fail

-----------------------------------------------------------------------------
(* JSON.stringify *)

RECURSIVE QuoteChars(_)
QuoteChars(s) ==
    IF s = <<>> THEN <<>>
    ELSE (IF Head(s) \in {QUOTE, BSL} THEN <<BSL, Head(s)>> ELSE <<Head(s)>>)
         \o QuoteChars(Tail(s))

DigitChar(d) == <<"0", "1", "2", "3", "4", "5", "6", "7", "8", "9">>[d + 1]

RECURSIVE Digits(_)
Digits(n) == IF n < 10 THEN <<DigitChar(n)>> ELSE Append(Digits(n \div 10), DigitChar(n % 10))

RECURSIVE JSONstringify(_), StringifyItems(_), StringifyMembers(_)

JSONstringify(v) ==
    CASE v.t = "num" -> Digits(v.n)
      [] v.t = "null" -> NullText
      [] v.t = "str" -> <<QUOTE>> \o QuoteChars(v.s) \o <<QUOTE>>
      [] v.t = "arr" -> <<"[">> \o StringifyItems(v.items) \o <<"]">>
      [] v.t = "obj" -> <<"{">> \o StringifyMembers(v.m) \o <<"}">>

StringifyItems(items) ==
    IF items = <<>> THEN <<>>
    ELSE JSONstringify(Head(items))
         \o (IF Len(items) > 1 THEN <<",">> ELSE <<>>)
         \o StringifyItems(Tail(items))

StringifyMembers(m) ==
    IF m = <<>> THEN <<>>
    ELSE <<QUOTE>> \o QuoteChars(Head(m)[1]) \o <<QUOTE, ":">> \o JSONstringify(Head(m)[2])
         \o (IF Len(m) > 1 THEN <<",">> ELSE <<>>)
         \o StringifyMembers(Tail(m))

-----------------------------------------------------------------------------
(* JavaScript values of a request body, and what SQLite stores of them *)

Undef == [t |-> "undef"]
Null == [t |-> "null"]
Str(s) == [t |-> "str", s |-> s]
Num(n) == [t |-> "num", n |-> n]
Arr(items) == [t |-> "arr", items |-> items]
Obj(m) == [t |-> "obj", m |-> m]

\* destructuring default: applies to undefined only
Default(v, d) == IF v.t = "undef" THEN d ELSE v

\* ToBoolean
Truthy(v) ==
    CASE v.t = "str" -> v.s # <<>>
      [] v.t = "num" -> v.n # 0
      [] v.t \in {"undef", "null"} -> FALSE
      [] OTHER -> TRUE

\* a || b
OrElse(a, b) == IF Truthy(a) THEN a ELSE b

IsArray(v) == v.t = "arr"

\* the connection left at SQLite's default: foreign keys not enforced
foreign_keys_off == FALSE

\* PRAGMA foreign_keys = ON, run on the connection before any route is served
foreign_keys == TRUE

\* the empty array text '[]'
EmptyArrayText == <<"[", "]">>

-----------------------------------------------------------------------------
(* Tables *)

HasProntuario(id) == \E p \in prontuarios : p.id = id

ProntuarioIds == {p.id : p \in prontuarios}

ExamesOf(pid) == {e \in exames : e.prontuario_id = pid}

\* HTTP response of the last storage route served
Resp(op, status, id, rows) == [op |-> op, status |-> status, id |-> id, rows |-> rows]

\* the Array.isArray guard dropped: whatever was supplied is serialized
ExamesStr_unguarded(exames_solicitados) == JSONstringify(exames_solicitados)

\* Array.isArray(x) ? JSON.stringify(x) : '[]'
ExamesStr(exames_solicitados) ==
    IF IsArray(exames_solicitados) THEN JSONstringify(exames_solicitados)
    ELSE EmptyArrayText

\* if (!nome || !cpf || !data_consulta || !diagnostico)
MissingRequired(body) ==
    ~Truthy(body.nome) \/ ~Truthy(body.cpf) \/ ~Truthy(body.data_consulta)
        \/ ~Truthy(body.diagnostico)

ProntuarioRow(id, body) ==
    [id |-> id, nome |-> body.nome, cpf |-> body.cpf,
     data_consulta |-> body.data_consulta, diagnostico |-> body.diagnostico,
     sintomas |-> Default(body.sintomas, Str(<<>>)),
     anamnese |-> Default(body.anamnese, Str(<<>>)),
     exames_solicitados |-> ExamesStr(Default(body.exames_solicitados, Arr(<<>>)))]

\* INTEGER PRIMARY KEY without AUTOINCREMENT: one more than the largest id
\* among the rows left
NextProntuarioId_rowid ==
    IF prontuarios = {} THEN 1
    ELSE (CHOOSE i \in ProntuarioIds : \A j \in ProntuarioIds : j <= i) + 1

\* id INTEGER PRIMARY KEY AUTOINCREMENT: one more than the largest id the
\* table has ever held (sqlite_sequence), whatever rows are left
NextProntuarioId == seqP + 1

\* POST /prontuario
CreateProntuario(body) ==
    /\ UNCHANGED <<exames, seqE, ai>>
    /\ IF MissingRequired(body)
       THEN /\ resp' = Resp("POST /prontuario", 400, 0, <<>>)
            /\ UNCHANGED <<prontuarios, seqP, issued>>
       ELSE /\ seqP < MaxId
            /\ seqP' = NextProntuarioId
            /\ prontuarios' = prontuarios \cup {ProntuarioRow(NextProntuarioId, body)}
            /\ issued' = issued \cup {NextProntuarioId}
            /\ resp' = Resp("POST /prontuario", 201, NextProntuarioId, <<>>)

\* INSERT OR REPLACE in place of UPDATE: a row is written whatever the id
UpdateRows_upsert(id, body) ==
    {p \in prontuarios : p.id # id} \cup {ProntuarioRow(id, body)}

\* UPDATE prontuarios SET ... WHERE id = ?
UpdateRows(id, body) ==
    {IF p.id = id THEN ProntuarioRow(id, body) ELSE p : p \in prontuarios}

\* PUT /prontuario/:id
UpdateProntuario(id, body) ==
    /\ UNCHANGED <<exames, seqP, seqE, ai, issued>>
    /\ IF MissingRequired(body)
       THEN /\ resp' = Resp("PUT /prontuario", 400, id, <<>>)
            /\ UNCHANGED prontuarios
       ELSE /\ prontuarios' = UpdateRows(id, body)
            /\ resp' = Resp("PUT /prontuario", IF HasProntuario(id) THEN 200 ELSE 404, id, <<>>)

\* the foreign key declared without ON DELETE CASCADE and not enforced
CascadeDelete_none(id) == exames

\* FOREIGN KEY(prontuario_id) REFERENCES prontuarios(id) ON DELETE CASCADE
CascadeDelete(id) ==
    IF foreign_keys THEN {e \in exames : e.prontuario_id # id} ELSE exames

\* DELETE /prontuario/:id
DeleteProntuario(id) ==
    /\ UNCHANGED <<seqP, seqE, ai, issued>>
    /\ IF HasProntuario(id)
       THEN /\ prontuarios' = {p \in prontuarios : p.id # id}
            /\ exames' = CascadeDelete(id)
            /\ resp' = Resp("DELETE /prontuario", 200, id, <<>>)
       ELSE /\ UNCHANGED <<prontuarios, exames>>
            /\ resp' = Resp("DELETE /prontuario", 404, id, <<>>)

\* rows.map(r => ({...r, exames_solicitados: try JSON.parse(r.exames_solicitados || '[]') catch []}))
DecodeExames(text) ==
    LET r == JSONparse(IF text = <<>> THEN EmptyArrayText ELSE text) IN
    IF r.ok THEN r.val ELSE Arr(<<>>)

\* SELECT * FROM prontuarios ORDER BY id DESC
RECURSIVE ByIdDesc(_)
ByIdDesc(rows) ==
    IF rows = {} THEN <<>>
    ELSE LET top == CHOOSE p \in rows : \A q \in rows : q.id <= p.id IN
         <<top>> \o ByIdDesc(rows \ {top})

\* ({...r, exames_solicitados: ...})
ListedRow(r) == [r EXCEPT !.exames_solicitados = DecodeExames(@)]

\* what GET /prontuarios answers with when the table holds `table`
Listed(table) ==
    LET rows == ByIdDesc(table) IN
    [i \in 1..Len(rows) |-> ListedRow(rows[i])]

\* GET /prontuarios
ListProntuarios ==
    /\ UNCHANGED <<prontuarios, exames, seqP, seqE, ai, issued>>
    /\ resp' = Resp("GET /prontuarios", 200, 0, Listed(prontuarios))

-----------------------------------------------------------------------------
(* Exam routes *)

\* the INSERT INTO exames statement: the foreign key rejects a prontuario_id
\* that names no stored record
InsertAllowed(prontuario_id) == foreign_keys => HasProntuario(prontuario_id)

\* const dataFinal = data_anexo || data_resultado || ''; bound as dataFinal || null
DataFinal(body) ==
    OrElse(OrElse(OrElse(Default(body.data_anexo, Str(<<>>)),
                         Default(body.data_resultado, Str(<<>>))),
                  Str(<<>>)),
           Null)

\* `/uploads/${req.file.filename}`
UploadPath == Str(<<"/", "u">>)

ExameRow(id, body, arquivo_path, resultado_texto) ==
    [id |-> id, prontuario_id |-> body.prontuario_id,
     tipo |-> Default(body.tipo, Str(<<>>)),
     observacoes |-> Default(body.observacoes, Str(<<>>)),
     arquivo_path |-> arquivo_path,
     resultado_texto |-> resultado_texto,
     data_resultado |-> DataFinal(body)]

\* db.run(INSERT INTO exames ...) and its callback
InsertExame(op, body, arquivo_path, resultado_texto) ==
    IF InsertAllowed(body.prontuario_id)
    THEN /\ seqE < MaxExams
         /\ seqE' = seqE + 1
         /\ exames' = exames \cup {ExameRow(seqE + 1, body, arquivo_path, resultado_texto)}
         /\ resp' = Resp(op, 201, seqE + 1, <<>>)
    ELSE /\ UNCHANGED <<exames, seqE>>
         /\ resp' = Resp(op, 500, 0, <<>>)

\* the req.file check dropped
ExamUpload_unchecked(body, file) ==
    /\ UNCHANGED <<prontuarios, seqP, ai, issued>>
    /\ IF body.prontuario_id = 0
       THEN /\ resp' = Resp("POST /exames/upload", 400, 0, <<>>)
            /\ UNCHANGED <<exames, seqE>>
       ELSE InsertExame("POST /exames/upload", body, UploadPath, Null)

\* POST /exames/upload ; file: whether multer found the field "arquivo"
ExamUpload(body, file) ==
    /\ UNCHANGED <<prontuarios, seqP, ai, issued>>
    /\ IF body.prontuario_id = 0 \/ ~file
       THEN /\ resp' = Resp("POST /exames/upload", 400, 0, <<>>)
            /\ UNCHANGED <<exames, seqE>>
       ELSE InsertExame("POST /exames/upload", body, UploadPath, Null)

\* POST /exames/texto
ExamTexto(body) ==
    LET resultado_texto == Default(body.resultado_texto, Str(<<>>)) IN
    /\ UNCHANGED <<prontuarios, seqP, ai, issued>>
    /\ IF body.prontuario_id = 0 \/ Trim(resultado_texto.s) = <<>>
       THEN /\ resp' = Resp("POST /exames/texto", 400, 0, <<>>)
            /\ UNCHANGED <<exames, seqE>>
       ELSE InsertExame("POST /exames/texto", body, Null, resultado_texto)

\* ... FROM exames WHERE prontuario_id = ? ORDER BY created_at DESC.
\* created_at is datetime('now'), whole seconds: rows inserted within one
\* second tie and SQLite may return them in any order.  The model keeps no
\* clock and lets every pair of rows tie, so every order SQLite can return
\* is among the orders returned here.
RECURSIVE ByCreatedDesc(_)
ByCreatedDesc(rows) ==
    IF rows = {} THEN {<<>>}
    ELSE UNION {{<<e>> \o rest : rest \in ByCreatedDesc(rows \ {e})} : e \in rows}

\* GET /exames?prontuario_id=
ListExames(prontuario_id) ==
    /\ UNCHANGED <<prontuarios, exames, seqP, seqE, ai, issued>>
    /\ IF prontuario_id = 0
       THEN resp' = Resp("GET /exames", 400, 0, <<>>)
       ELSE \E rows \in ByCreatedDesc(ExamesOf(prontuario_id)) :
                resp' = Resp("GET /exames", 200, prontuario_id,
                             [i \in 1..Len(rows) |->
                                [id |-> rows[i].id, tipo |-> rows[i].tipo,
                                 observacoes |-> rows[i].observacoes,
                                 arquivo_path |-> rows[i].arquivo_path,
                                 resultado_texto |-> rows[i].resultado_texto,
                                 data_resultado |-> rows[i].data_resultado,
                                 data_anexo |-> rows[i].data_resultado]])

-----------------------------------------------------------------------------
(* Exam summarizer *)

\* parts.join(' | ')
RECURSIVE JoinText(_, _)
JoinText(parts, sep) ==
    IF parts = <<>> THEN <<>>
    ELSE IF Len(parts) = 1 THEN parts[1]
    ELSE parts[1] \o <<sep>> \o JoinText(Tail(parts), sep)

LblTipo == "Tipo: "
LblData == "Data de anexo: "
LblResultado == "Resultado textual: "
LblObs == "Obs: "
LblArquivo == "Arquivo: "
NoteSemLaudo == "Sem laudo textual: interpretar arquivo anexado."

\* the negation dropped: the note is pushed when there is a textual result
NoteDue_whenText(r) == Truthy(r.resultado_texto)

\* r.resultado_texto is falsy: the note follows the file reference
NoteDue(r) == ~Truthy(r.resultado_texto)

\* the parts pushed for one row, in the order of the pushes
SummaryParts(r) ==
    (IF Truthy(r.tipo) THEN <<<<LblTipo>> \o r.tipo.s>> ELSE <<>>)
    \o (IF Truthy(r.data_resultado) THEN <<<<LblData>> \o r.data_resultado.s>> ELSE <<>>)
    \o (IF Truthy(r.resultado_texto) THEN <<<<LblResultado>> \o r.resultado_texto.s>> ELSE <<>>)
    \o (IF Truthy(r.observacoes) THEN <<<<LblObs>> \o r.observacoes.s>> ELSE <<>>)
    \o (IF Truthy(r.arquivo_path)
        THEN <<<<LblArquivo>> \o r.arquivo_path.s>>
             \o (IF NoteDue(r) THEN <<<<NoteSemLaudo>>>> ELSE <<>>)
        ELSE <<>>)

\* `- ${parts.join(' | ')}`
SummaryLine(r) == <<"- ">> \o JoinText(SummaryParts(r), " | ")

\* fetchExamsSummary once db.all has answered with rows: lines.join('\n')
FetchExamsSummary(rows) ==
    JoinText([i \in 1..Len(rows) |-> SummaryLine(rows[i])], "\n")

-----------------------------------------------------------------------------
(* Triage route *)

OLLAMA_MODEL == "deepseek-r1:8b"
OLLAMA_HOST == "http://127.0.0.1:11434"

\* triage requests that can be in flight
Slots == {"t1", "t2"}

Idle == [pc |-> "idle"]

\* raw.match(/\{[\s\S]*\}$/): the text from the first "{" to the end when
\* the text ends with "}", otherwise no match
FirstBrace(raw) == CHOOSE i \in 1..Len(raw) : raw[i] = "{" /\ \A j \in 1..(i - 1) : raw[j] # "{"

BraceMatch(raw) ==
    IF raw # <<>> /\ raw[Len(raw)] = "}" /\ \E i \in 1..Len(raw) : raw[i] = "{"
    THEN [found |-> TRUE, text |-> SubStr(raw, FirstBrace(raw), Len(raw))]
    ELSE [found |-> FALSE]

SemResposta == <<"sem resposta">>

\* { texto: raw || 'sem resposta' }
Fallback(raw) == Obj(<<<<<<"texto">>, Str(IF raw = <<>> THEN SemResposta ELSE raw)>>>>)

\* try { JSON.parse(raw) } catch { m ? JSON.parse(m[0]) : fallback }
\* [ok |-> FALSE] when the second JSON.parse throws out of the catch block
Interpret(raw) ==
    LET strict == JSONparse(raw)
        m == BraceMatch(raw) IN
    IF strict.ok THEN strict
    ELSE IF m.found THEN JSONparse(m.text)
    ELSE [ok |-> TRUE, val |-> Fallback(raw)]

Ok200(sugestao) ==
    [status |-> 200, sugestao |-> sugestao, model |-> OLLAMA_MODEL, host |-> OLLAMA_HOST]

Err502(detail) ==
    [status |-> 502, error |-> "IA indisponivel", detail |-> detail,
     model |-> OLLAMA_MODEL, host |-> OLLAMA_HOST]

Err400 == [status |-> 400, error |-> "Informe ao menos sintomas ou anamnese."]

Finished(res, calls, lookups, oracle, raw) ==
    [pc |-> "done", res |-> res, calls |-> calls, lookups |-> lookups,
     oracle |-> oracle, raw |-> raw]

NoOracle == [kind |-> "none"]

NaoInformado == <<"(nao informado)">>
NaoInformada == <<"(nao informada)">>
SemExames == <<"(sem exames disponiveis)">>

\* the three interpolated sections of the prompt
Prompt(sintomas, anamnese, examesBloco) ==
    [sintomas |-> IF Truthy(sintomas) THEN sintomas.s ELSE NaoInformado,
     anamnese |-> IF Truthy(anamnese) THEN anamnese.s ELSE NaoInformada,
     exames |-> IF examesBloco = <<>> THEN SemExames ELSE examesBloco]

\* askOllama(prompt) up to its await of fetch: one request is on the wire
Calling(sintomas, anamnese, examesBloco, lookups, summary) ==
    [pc |-> "oracle", prompt |-> Prompt(sintomas, anamnese, examesBloco),
     calls |-> 1, lookups |-> lookups, summary |-> summary]

\* what fetchExamsSummary settled with, when it was called
NoSummary == [kind |-> "none"]
Resolved(text) == [kind |-> "resolved", text |-> text]
Rejected == [kind |-> "rejected"]

\* express.json() has parsed the body of a POST /ai-diagnostico
AiArrive(t, body) ==
    /\ ai[t].pc = "idle"
    /\ ai' = [ai EXCEPT ![t] = [pc |-> "recv", body |-> body]]
    /\ UNCHANGED <<prontuarios, exames, seqP, seqE, resp, issued>>

\* x.trim() on a value that is no string throws a TypeError
TrimThrows(v) == v.t # "str"

\* || in place of &&: one blank field is enough to reject
BothBlank_either(sintomas, anamnese) ==
    \/ sintomas.t = "str" /\ Trim(sintomas.s) = <<>>
    \/ anamnese.t = "str" /\ Trim(anamnese.s) = <<>>

\* !sintomas.trim() && !anamnese.trim()
BothBlank(sintomas, anamnese) == Trim(sintomas.s) = <<>> /\ Trim(anamnese.s) = <<>>

\* the handler from its start to its first await
AiHandle(t) ==
    /\ ai[t].pc = "recv"
    /\ UNCHANGED <<prontuarios, exames, seqP, seqE, resp, issued>>
    /\ LET body == ai[t].body
           sintomas == Default(body.sintomas, Str(<<>>))
           anamnese == Default(body.anamnese, Str(<<>>))
           exames_resumo == Default(body.exames_resumo, Str(<<>>))
       IN
       ai' = [ai EXCEPT ![t] =
           IF TrimThrows(sintomas) \/ (Trim(sintomas.s) = <<>> /\ TrimThrows(anamnese))
           THEN Finished(Err502("TypeError"), 0, 0, NoOracle, <<>>)
           ELSE IF BothBlank(sintomas, anamnese)
           THEN Finished(Err400, 0, 0, NoOracle, <<>>)
           ELSE IF Truthy(exames_resumo) /\ TrimThrows(exames_resumo)
           THEN Finished(Err502("TypeError"), 0, 0, NoOracle, <<>>)
           ELSE IF Truthy(exames_resumo) /\ Trim(exames_resumo.s) # <<>>
           THEN Calling(sintomas, anamnese, Trim(exames_resumo.s), 0, NoSummary)
           ELSE IF body.prontuario_id # 0
           THEN [pc |-> "lookup", sintomas |-> sintomas, anamnese |-> anamnese,
                 prontuario_id |-> body.prontuario_id, calls |-> 0, lookups |-> 1]
           ELSE Calling(sintomas, anamnese, <<>>, 0, NoSummary)]

\* db.all of fetchExamsSummary answers: rows, or an error the handler logs
AiLookup(t, dbError) ==
    /\ ai[t].pc = "lookup"
    /\ UNCHANGED <<prontuarios, exames, seqP, seqE, resp, issued>>
    /\ \E rows \in ByCreatedDesc(ExamesOf(ai[t].prontuario_id)) :
         LET summary == IF dbError THEN Rejected ELSE Resolved(FetchExamsSummary(rows))
             examesBloco == IF dbError THEN <<>> ELSE summary.text
         IN ai' = [ai EXCEPT ![t] =
                Calling(ai[t].sintomas, ai[t].anamnese, examesBloco, 1, summary)]

\* the oracle's answer reaches askOllama: a rejected fetch or a non-ok status
\* (kind "error"), or an ok status whose JSON body carries `response`
AiOracle(t, oracle) ==
    /\ ai[t].pc = "oracle"
    /\ UNCHANGED <<prontuarios, exames, seqP, seqE, resp, issued>>
    /\ ai' = [ai EXCEPT ![t] =
          IF oracle.kind = "error"
          THEN Finished(Err502("Ollama HTTP"), ai[t].calls, ai[t].lookups, oracle, <<>>)
          ELSE IF Truthy(oracle.response) /\ TrimThrows(oracle.response)
          THEN Finished(Err502("TypeError"), ai[t].calls, ai[t].lookups, oracle, <<>>)
          ELSE LET raw == IF Truthy(oracle.response) THEN Trim(oracle.response.s) ELSE <<>>
                   got == Interpret(raw) IN
               Finished(IF got.ok THEN Ok200(got.val) ELSE Err502("SyntaxError"),
                        ai[t].calls, ai[t].lookups, oracle, raw)]

\* the response has been written; the slot serves the next request
AiDone(t) ==
    /\ ai[t].pc = "done"
    /\ ai' = [ai EXCEPT ![t] = Idle]
    /\ UNCHANGED <<prontuarios, exames, seqP, seqE, resp, issued>>

-----------------------------------------------------------------------------
(* Requests the clients send *)

Present == Str(<<"x">>)

ValidBody(exames_solicitados) ==
    [nome |-> Present, cpf |-> Present, data_consulta |-> Present,
     diagnostico |-> Present, sintomas |-> Undef, anamnese |-> Undef,
     exames_solicitados |-> exames_solicitados]

\* bodies with a required field absent, or empty
InvalidBodies ==
    {[ValidBody(Undef) EXCEPT !.nome = Undef], [ValidBody(Undef) EXCEPT !.diagnostico = Str(<<>>)]}

\* an exam name that JSON.stringify has to escape: a quote, a comma, a backslash
Escaped == Str(<<QUOTE, ",", BSL>>)

\* lists a client can supply: every list of the escaped name up to MaxItems
\* items, and lists with a plain name
Lists ==
    {Arr(items) : items \in TextsUpTo({Escaped}, MaxItems)}
        \cup {Arr(<<Str(<<"a">>)>>), Arr(<<Escaped, Str(<<"a">>)>>)}

\* a null, a string, a number, an object
NonLists == {Null, Str(<<"a">>), Num(1), Obj(<<<<<<"a">>, Num(1)>>>>)}

\* prontuario bodies of the storage specification
StoreBodies == InvalidBodies \cup {ValidBody(Undef), ValidBody(Arr(<<Str(<<"a">>)>>))}

\* prontuario bodies of the exames_solicitados specification
JsonBodies == {ValidBody(v) : v \in {Undef} \cup Lists \cup NonLists}

\* ids a client can name: every id ever handed out, and one never handed out
IdInputs == 1..(MaxId + 1)

ExameBody(prontuario_id, tipo, observacoes, resultado_texto, data_anexo, data_resultado) ==
    [prontuario_id |-> prontuario_id, tipo |-> tipo, observacoes |-> observacoes,
     resultado_texto |-> resultado_texto, data_anexo |-> data_anexo,
     data_resultado |-> data_resultado]

\* exam bodies of the storage specification: a result, or a blank one;
\* prontuario_id 0 stands for an absent or empty prontuario_id
StoreExames ==
    {ExameBody(id, Undef, Undef, r, Undef, Undef) :
        id \in 0..(MaxId + 1), r \in {Str(<<SP>>), Str(<<"r">>)}}

\* exam bodies of the summary specification, all for the first record: no
\* optional attribute, the type alone, observations and a date, and all of them
SummaryExames ==
    {ExameBody(1, sh[1], sh[2], Str(<<"r">>), sh[3], sh[4]) :
        sh \in {<<Undef, Undef, Undef, Undef>>,
                <<Str(<<"t">>), Str(<<>>), Undef, Undef>>,
                <<Undef, Str(<<"o">>), Str(<<"d">>), Str(<<"e">>)>>,
                <<Str(<<"t">>), Str(<<"o">>), Str(<<>>), Str(<<"e">>)>>}}

\* a triage field as clients send it: absent, empty, blank, text, null
TextFields == {Undef, Str(<<>>), Str(<<SP>>), Str(<<"s">>), Null}

TriageBody(sintomas, anamnese, prontuario_id, exames_resumo) ==
    [sintomas |-> sintomas, anamnese |-> anamnese, prontuario_id |-> prontuario_id,
     exames_resumo |-> exames_resumo]

\* prontuario_id 0 stands for an absent (null) prontuario_id
TriageBodies ==
    {TriageBody(s, a, id, e) :
        s \in TextFields, a \in TextFields, id \in 0..1,
        e \in {Undef, Str(<<SP>>), Str(<<SP, "e", SP>>)}}

\* triage bodies of the summary specification: the exams are looked up
SummaryTriage == {TriageBody(Str(<<"s">>), Undef, id, Undef) : id \in 1..MaxId}

RawAlphabet == {"{", "}", "1", "x", SP}

\* texts with a member, noise before and after, and two spans
SampleTexts ==
    LET object == <<"{", QUOTE, "a", QUOTE, ":", "1", "}">> IN
    {object, <<"x", SP>> \o object, <<"x">> \o object \o <<SP, "x">>,
     <<"{", "x", "}", SP>> \o object, object \o object}

OracleTexts == TextsUpTo(RawAlphabet, MaxLen) \cup SampleTexts

OracleError == [kind |-> "error"]
OracleOk(response) == [kind |-> "ok", response |-> response]

\* what the oracle can answer: a failure, or an ok body whose `response` is
\* absent, a number, or any text
OracleOutcomes ==
    {OracleError, OracleOk(Undef), OracleOk(Num(1))}
        \cup {OracleOk(Str(text)) : text \in OracleTexts}

SummaryOutcomes == {OracleError, OracleOk(Str(<<"{", "}">>))}

-----------------------------------------------------------------------------
(* Specifications *)

NoResp == Resp("none", 0, 0, <<>>)

Init ==
    /\ prontuarios = {}
    /\ exames = {}
    /\ seqP = 0
    /\ seqE = 0
    /\ resp = NoResp
    /\ ai = [t \in Slots |-> Idle]
    /\ issued = {}

\* the storage routes under interleaved requests
Next ==
    \/ \E body \in StoreBodies : CreateProntuario(body)
    \/ \E id \in IdInputs, body \in StoreBodies : UpdateProntuario(id, body)
    \/ \E id \in IdInputs : DeleteProntuario(id)
    \/ ListProntuarios
    \/ \E body \in StoreExames, file \in BOOLEAN : ExamUpload(body, file)
    \/ \E body \in StoreExames : ExamTexto(body)
    \/ \E id \in 0..(MaxId + 1) : ListExames(id)

Spec == Init /\ [][Next]_vars

\* create, update and list with every shape of exames_solicitados
NextJson ==
    \/ \E body \in JsonBodies : CreateProntuario(body)
    \/ \E id \in IdInputs, body \in JsonBodies : UpdateProntuario(id, body)
    \/ ListProntuarios

SpecJson == Init /\ [][NextJson]_vars

\* one triage request at a time against a store that holds no exams
NextTriage ==
    \/ \E body \in TriageBodies : AiArrive("t1", body)
    \/ AiHandle("t1")
    \/ \E dbError \in BOOLEAN : AiLookup("t1", dbError)
    \/ \E oracle \in OracleOutcomes : AiOracle("t1", oracle)
    \/ AiDone("t1")

SpecTriage == Init /\ [][NextTriage]_vars

\* triage requests that look the exams up, while exams are attached
NextSummary ==
    \/ CreateProntuario(ValidBody(Undef))
    \/ \E body \in SummaryExames : ExamUpload(body, TRUE)
    \/ \E body \in SummaryExames : ExamTexto(body)
    \/ \E body \in SummaryTriage : AiArrive("t1", body)
    \/ AiHandle("t1")
    \/ \E dbError \in BOOLEAN : AiLookup("t1", dbError)
    \/ \E oracle \in SummaryOutcomes : AiOracle("t1", oracle)
    \/ AiDone("t1")

SpecSummary == Init /\ [][NextSummary]_vars

\* triage bodies of the concurrent specification: both fields blank, symptoms
\* alone, a record to look up, an exam summary, and an exam summary that is a
\* number
ConcurrentTriage ==
    {TriageBody(Undef, Str(<<SP>>), 0, Undef),
     TriageBody(Str(<<"s">>), Undef, 0, Undef),
     TriageBody(Undef, Str(<<"s">>), 1, Undef),
     TriageBody(Str(<<"s">>), Undef, 0, Str(<<"e">>)),
     TriageBody(Str(<<"s">>), Undef, 0, Num(1))}

ConcurrentOutcomes == {OracleError, OracleOk(Str(<<"{", "}">>)), OracleOk(Str(<<"x">>))}

\* triage requests in flight together, their awaits settling in any order
NextConcurrent ==
    \/ \E t \in Slots, body \in ConcurrentTriage : AiArrive(t, body)
    \/ \E t \in Slots : AiHandle(t)
    \/ \E t \in Slots, dbError \in BOOLEAN : AiLookup(t, dbError)
    \/ \E t \in Slots, oracle \in ConcurrentOutcomes : AiOracle(t, oracle)
    \/ \E t \in Slots : AiDone(t)

SpecConcurrent == Init /\ [][NextConcurrent]_vars

-----------------------------------------------------------------------------
(* Claims about the storage routes, checked under Spec *)

ExamOps == {"POST /exames/upload", "POST /exames/texto"}

ListedIds(rows) == {rows[i].id : i \in 1..Len(rows)}

\* C3: a successful DELETE /prontuario/:id leaves no exam row of that id,
\* whatever number of exams either creation path attached, and leaves the exams
\* of the other records as they were; GET /exames for an id that names no
\* stored record answers with the empty list.
C3_DeleteCascades ==
    /\ [](resp.op = "GET /exames" /\ resp.status = 200 /\ ~HasProntuario(resp.id)
            => resp.rows = <<>>)
    /\ [][\A id \in IdInputs :
            (resp'.op = "DELETE /prontuario" /\ HasProntuario(id) /\ DeleteProntuario(id))
            => /\ resp'.status = 200
               /\ {e \in exames' : e.prontuario_id = id} = {}
               /\ {e \in exames' : e.prontuario_id # id}
                    = {e \in exames : e.prontuario_id # id}]_vars

\* a delete has just removed a record and its uploaded exam, and another
\* record's text exam is still stored
C3_Witness ==
    /\ resp.op = "DELETE /prontuario" /\ resp.status = 200
    /\ seqE = 2 /\ Cardinality(exames) = 1
    /\ \A e \in exames : e.id = 1 /\ e.arquivo_path = Null

\* C4: in every reachable state every stored exam's prontuario_id is the id of
\* a stored record (so an insert naming an absent record added no row).
C4_ExamsReferenceRecords == \A e \in exames : e.prontuario_id \in ProntuarioIds

\* an exam insert naming a deleted record was refused while exams are stored
C4_Witness ==
    /\ resp.op \in ExamOps /\ resp.status = 500
    /\ exames # {}
    /\ Cardinality(prontuarios) < seqP

\* C6: PUT with the required fields present, and DELETE, on an id that names
\* no stored record answer 404 and leave every record row and exam row as it was.
C6_AbsentIdNoMutation ==
    [][resp'.op \in {"PUT /prontuario", "DELETE /prontuario"} =>
        \A id \in IdInputs :
            (/\ ~HasProntuario(id)
             /\ \/ \E body \in StoreBodies : ~MissingRequired(body) /\ UpdateProntuario(id, body)
                \/ DeleteProntuario(id))
            => /\ resp'.status = 404
               /\ prontuarios' = prontuarios
               /\ exames' = exames]_vars

\* a PUT on an absent id was answered 404 while records and exams are stored
C6_Witness ==
    /\ resp.op = "PUT /prontuario" /\ resp.status = 404
    /\ prontuarios # {} /\ exames # {}

\* C7: an upload without a file and a text result that is empty after trimming
\* are answered 400, and every exam-creation request answered 400 leaves the
\* exam table as it was.
C7_RejectedExamNoInsert ==
    [][resp'.op \in ExamOps =>
        /\ resp'.status = 400 => exames' = exames /\ seqE' = seqE
        /\ resp'.status # 400 =>
             \A body \in StoreExames :
                /\ ~ExamUpload(body, FALSE)
                /\ Trim(Default(body.resultado_texto, Str(<<>>)).s) = <<>> => ~ExamTexto(body)]_vars

\* an upload naming a stored record was refused for want of a file
C7_Witness ==
    /\ resp.op = "POST /exames/upload" /\ resp.status = 400
    /\ prontuarios # {} /\ exames # {}

\* C8: each successful POST /prontuario returns an id greater than every id
\* returned before, and a record stays stored and listed by GET /prontuarios
\* until a DELETE of its id.
C8_IdsIncrease ==
    /\ [](resp.op = "GET /prontuarios" => ListedIds(resp.rows) = ProntuarioIds)
    /\ [][/\ (\E body \in StoreBodies : CreateProntuario(body) /\ resp'.status = 201)
              => /\ \A i \in issued : resp'.id > i
                 /\ resp'.id \in ListedIds(Listed(prontuarios'))
           /\ \A id \in ProntuarioIds :
                id \in ProntuarioIds' \/ DeleteProntuario(id)]_vars

\* a record was created after the record with the largest id was deleted
C8_Witness ==
    /\ resp.op = "POST /prontuario" /\ resp.status = 201
    /\ Cardinality(issued) > Cardinality(prontuarios)
    /\ resp.id \in ProntuarioIds
    /\ \A p \in prontuarios : p.id = resp.id

-----------------------------------------------------------------------------
(* Claim about exames_solicitados, checked under SpecJson *)

\* the exames_solicitados that GET /prontuarios returns for the record id of
\* table
ListedExames(table, id) ==
    LET r == CHOOSE p \in table : p.id = id IN ListedRow(r).exames_solicitados

\* C9: after every create and every update of a stored record, whatever is
\* supplied as exames_solicitados, the request succeeds and GET /prontuarios
\* returns for that record the supplied value when it is a list and the empty
\* list when it is not (absent, null, string, number, object).
C9_ExamesRoundTrip ==
    /\ [](resp.op = "GET /prontuarios"
            => /\ Len(resp.rows) = Cardinality(prontuarios)
               /\ \A i \in 1..Len(resp.rows) :
                    resp.rows[i].exames_solicitados = ListedExames(prontuarios, resp.rows[i].id))
    /\ [][\A body \in JsonBodies :
            LET supplied == body.exames_solicitados
                expected == IF supplied.t = "arr" THEN supplied ELSE Arr(<<>>) IN
            /\ (resp'.op = "POST /prontuario" /\ CreateProntuario(body))
                 => resp'.status = 201 /\ ListedExames(prontuarios', resp'.id) = expected
            /\ \A id \in ProntuarioIds :
                 (resp'.op = "PUT /prontuario" /\ resp'.id = id /\ UpdateProntuario(id, body))
                 => resp'.status = 200 /\ ListedExames(prontuarios', id) = expected]_vars

\* an update stored a two-item list whose first item needs escaping
C9_Witness ==
    /\ resp.op = "PUT /prontuario" /\ resp.status = 200
    /\ ListedExames(prontuarios, resp.id) = Arr(<<Escaped, Str(<<"a">>)>>)

-----------------------------------------------------------------------------
(* Claims about the triage route, checked under SpecTriage *)

\* the slot answered a request whose oracle call returned ok with a text
AnsweredOkText(t) ==
    /\ ai[t].pc = "done"
    /\ ai[t].oracle.kind = "ok"
    /\ ai[t].oracle.response.t = "str"

\* C1: whatever text the oracle returns on an ok call, the request is answered
\* 200 with {sugestao, model, host}, never with an error status.
C1_OkTextNeverFails ==
    \A t \in Slots :
        AnsweredOkText(t)
        => /\ ai[t].res.status = 200
           /\ DOMAIN ai[t].res = {"status", "sugestao", "model", "host"}

\* the objects that the spans from a "{" to the last "}" of the text parse to
FinalSpanObjects(raw) ==
    LET closes == {j \in 1..Len(raw) : raw[j] = "}"}
        last == CHOOSE j \in closes : \A k \in closes : k <= j
        spans == IF closes = {} THEN {}
                 ELSE {SubStr(raw, i, last) : i \in {k \in 1..last : raw[k] = "{"}}
    IN {JSONparse(x).val : x \in {y \in spans : JSONparse(y).ok /\ JSONparse(y).val.t = "obj"}}

\* C2: the interpreter's result is (1) the parsed value when the whole text is
\* JSON, (2) otherwise the object of the final brace-delimited span when there
\* is one, noise around it or not, (3) otherwise {texto: the text unchanged}.
C2_ThreeCases ==
    \A t \in Slots :
        AnsweredOkText(t)
        => LET raw == ai[t].raw
               strict == JSONparse(raw) IN
           /\ ai[t].res.status = 200
           /\ IF strict.ok THEN ai[t].res.sugestao = strict.val
              ELSE IF FinalSpanObjects(raw) # {} THEN ai[t].res.sugestao \in FinalSpanObjects(raw)
              ELSE ai[t].res.sugestao = Obj(<<<<<<"texto">>, Str(raw)>>>>)

\* absent, empty or whitespace-only
Blank(v) == v.t = "undef" \/ (v.t = "str" /\ Trim(v.s) = <<>>)

NonBlank(v) == v.t = "str" /\ Trim(v.s) # <<>>

\* C5: a request whose sintomas and anamnese are both blank is answered 400
\* with no oracle call and no exam lookup, whatever prontuario_id or
\* exames_resumo it carries; a request with one of the two non-blank is not
\* answered 400.
C5_BlankIs400 ==
    /\ [](\A t \in Slots :
            (ai[t].pc = "done" /\ ai[t].res.status = 400)
            => ai[t].calls = 0 /\ ai[t].lookups = 0)
    /\ [][\A t \in Slots :
            (ai[t].pc = "recv" /\ ai'[t] # ai[t])
            => LET body == ai[t].body IN
               /\ (Blank(body.sintomas) /\ Blank(body.anamnese))
                    => ai'[t].pc = "done" /\ ai'[t].res.status = 400
               /\ (NonBlank(body.sintomas) \/ NonBlank(body.anamnese))
                    => ~(ai'[t].pc = "done" /\ ai'[t].res.status = 400)]_vars
       /\ [][\A t \in Slots :
            (ai[t].pc \in {"lookup", "oracle"} /\ ai'[t].pc = "done")
            => ai'[t].res.status # 400]_vars

\* a request was answered 400
C5_Witness == ai["t1"].pc = "done" /\ ai["t1"].res.status = 400

-----------------------------------------------------------------------------
(* Claim about the exam summarizer, checked under SpecSummary *)

\* text.split(sep)
RECURSIVE SplitText(_, _)
SplitText(text, sep) ==
    IF \E i \in 1..Len(text) : text[i] = sep
    THEN LET i == CHOOSE k \in 1..Len(text) : text[k] = sep /\ \A j \in 1..(k - 1) : text[j] # sep
         IN <<SubStr(text, 1, i - 1)>> \o SplitText(SubStr(text, i + 1, Len(text)), sep)
    ELSE <<text>>

LabelOrder == <<LblTipo, LblData, LblResultado, LblObs, LblArquivo>>

\* the attribute labels of a line, in the order they appear
LabelsOf(line) == SelectSeq(line, LAMBDA tok : \E k \in 1..5 : tok = LabelOrder[k])

\* the labels of the attributes the row has, in the fixed order
LabelsDue(r) ==
    LET has == <<Truthy(r.tipo), Truthy(r.data_resultado), Truthy(r.resultado_texto),
                 Truthy(r.observacoes), Truthy(r.arquivo_path)>>
        RECURSIVE Pick(_)
        Pick(k) == IF k > 5 THEN <<>>
                   ELSE (IF has[k] THEN <<LabelOrder[k]>> ELSE <<>>) \o Pick(k + 1)
    IN Pick(1)

LineDescribes(line, r) ==
    /\ (\E i \in 1..Len(line) : line[i] = NoteSemLaudo)
         <=> (Truthy(r.arquivo_path) /\ ~Truthy(r.resultado_texto))
    /\ LabelsOf(line) = LabelsDue(r)

\* C10: fetchExamsSummary returns the empty text for a record without exams,
\* and otherwise one line per exam, where the line carries the note exactly
\* when the exam has a file and no textual result, and the labels of the
\* attributes the exam has, in the order type, date, textual result,
\* observations, file.
C10_SummaryLines ==
    [][\A t \in Slots :
        (ai[t].pc = "lookup" /\ ai'[t].pc = "oracle" /\ ai'[t].summary.kind = "resolved")
        => LET stored == ExamesOf(ai[t].prontuario_id)
               text == ai'[t].summary.text
               lines == SplitText(text, "\n") IN
           IF stored = {} THEN text = <<>>
           ELSE /\ Len(lines) = Cardinality(stored)
                /\ \E rows \in ByCreatedDesc(stored) :
                     \A i \in 1..Len(rows) : LineDescribes(lines[i], rows[i])]_vars

\* a summary of two lines was returned, one with the note and one without
C10_Witness ==
    /\ ai["t1"].pc = "oracle" /\ ai["t1"].summary.kind = "resolved"
    /\ LET lines == SplitText(ai["t1"].summary.text, "\n") IN
       /\ Len(lines) = 2
       /\ \E i \in 1..Len(lines[1]) : lines[1][i] = NoteSemLaudo
       /\ \A i \in 1..Len(lines[2]) : lines[2][i] # NoteSemLaudo
       /\ LabelsOf(lines[2]) = <<LblTipo, LblData, LblResultado, LblObs>>

-----------------------------------------------------------------------------
(* Claims about concurrent triage requests, checked under SpecConcurrent *)

\* the check of line 278 neither answers 400 nor throws
PassesValidation(body) ==
    LET sintomas == Default(body.sintomas, Str(<<>>))
        anamnese == Default(body.anamnese, Str(<<>>)) IN
    /\ sintomas.t = "str"
    /\ \/ Trim(sintomas.s) # <<>>
       \/ anamnese.t = "str" /\ Trim(anamnese.s) # <<>>

\* a request that passes the validation goes on to its one oracle call, and
\* no request has more than one call on its account
DispatchesOneCall ==
    /\ [](\A t \in Slots : ai[t].pc \in {"lookup", "oracle", "done"} => ai[t].calls <= 1)
    /\ [][\A t \in Slots :
            (ai[t].pc = "recv" /\ ai'[t] # ai[t] /\ PassesValidation(ai[t].body))
            => ai'[t].pc \in {"lookup", "oracle"}]_vars
    /\ [][\A t \in Slots :
            (ai[t].pc = "lookup" /\ ai'[t] # ai[t]) => ai'[t].pc = "oracle"]_vars
    /\ [](\A t \in Slots : ai[t].pc = "oracle" => ai[t].calls = 1)
    /\ [][\A t \in Slots :
            (ai[t].pc = "oracle" /\ ai'[t] # ai[t])
            => ai'[t].pc = "done" /\ ai'[t].calls = 1]_vars

\* a failed call ends its own request with one 502 carrying error, detail,
\* model and host, and a request that was answered is not answered again
FailureReportedOnce ==
    /\ [](\A t \in Slots :
            (ai[t].pc = "done" /\ ai[t].oracle.kind = "error")
            => /\ ai[t].res.status = 502
               /\ DOMAIN ai[t].res = {"status", "error", "detail", "model", "host"}
               /\ ai[t].res.model = OLLAMA_MODEL /\ ai[t].res.host = OLLAMA_HOST)
    /\ [][\A t \in Slots :
            (ai[t].pc = "done" /\ ai'[t] # ai[t]) => ai'[t] = Idle]_vars

\* a step of one request leaves every other request as it was, and a slot
\* that is idle accepts the next request whatever the other requests met
RequestsIsolated ==
    /\ [][\A t \in Slots, u \in Slots :
            (t # u /\ ai'[t] # ai[t]) => ai'[u] = ai[u]]_vars
    /\ [](\A t \in Slots :
            ai[t].pc = "idle" => ENABLED AiArrive(t, TriageBody(Str(<<"s">>), Undef, 0, Undef)))

\* C11: each request that passes the validation dispatches exactly one oracle
\* call, a failure of that call is reported once as a 502 with error, detail,
\* model and host to the request that issued it, and under every interleaving
\* one request's failure changes no other request and leaves the server
\* accepting requests.
C11_OneCallOneReport ==
    /\ DispatchesOneCall
    /\ FailureReportedOnce
    /\ RequestsIsolated

=============================================================================
